---- MODULE Spec2Model ----
(***************************************************************************)
(* A model of the siveca-api core: the MQTT telemetry listener and the     *)
(* ingestion pipeline, the station table operations of the Postgres live   *)
(* service (at the granularity of single SQL statements), and the          *)
(* cursor_id based telemetry query with its pagination result.             *)
(*                                                                         *)
(* Where a source file holds two definitions of the same function, the    *)
(* later one is modelled (a later declaration replaces an earlier one).    *)
(***************************************************************************)
EXTENDS Integers, Sequences, FiniteSets, TLC

VARIABLES
    stations,   \* the rows of table stations
    telemetry,  \* the rows of table telemetry_raw
    listener,   \* "idle" before subscribe, then "subscribed" (or "crashed")
    handler,    \* per inbound message: the state of its handler invocation
    api,        \* per API call slot: the state of one station API call
    walk,       \* the state of one client paging through queryTelemetry
    http,       \* the state of one GET /telemetry request and its response
    paged,      \* the last call of a pagination engine and its result
    call        \* the last call of a pure helper (normalizer, cursor codec) and its result

vars == <<stations, telemetry, listener, handler, api, walk, http, paged, call>>

-----------------------------------------------------------------------------
(* Bounds of the model *)

MaxMsgs == 2        \* inbound MQTT messages
MaxApi == 1         \* station API calls
MaxClock == 2       \* wall-clock readings, in seconds
MaxCursorIds == 2   \* distinct values gen_random_uuid() can return
MaxRows == 3        \* telemetry rows in the paging model
MaxLimit == 3       \* largest page size requested in the paging model
MaxStationCalls == 2 \* station API calls in the station model
MaxMeasures == 3    \* measures in one payload of the normalizer model
MaxIdLen == 2       \* characters of an identifier in the cursor model

(* Program constants *)

MsPerSecond == 1000

-----------------------------------------------------------------------------
(* Values *)

Null == "null"            \* JS null, SQL NULL
Undef == "undefined"      \* JS undefined: a missing field
NoNumber == <<>>          \* a null numeric column
Num(n) == <<n>>           \* a non-null numeric column

UUIDs == {"d1", "d2"}
Msgs == 1..MaxMsgs
Calls == 1..MaxApi
ClockValues == {s * MsPerSecond : s \in 1..MaxClock}
CursorIds == 1..MaxCursorIds

Truthy(s) == s \notin {Null, Undef, ""}      \* JS truthiness of a string | null
OrNull(s) == IF s = Undef THEN Null ELSE s   \* x ?? null

-----------------------------------------------------------------------------
(* Table stations *)

\* (variant: the table without its primary key)
NoPrimaryKey(S, uuid) == FALSE

\* PRIMARY KEY (uuid): a second row with the same uuid is rejected
StationsPrimaryKey(S, uuid) == \E r \in S : r.uuid = uuid

\* a primary key column is NOT NULL; an undefined value is sent as NULL
NotNullViolation(uuid) == uuid \in {Null, Undef}

StationRow(S, uuid) == CHOOSE r \in S : r.uuid = uuid

\* what the table holds for a uuid: no row, an active row, a soft-deleted row
RowState(S, uuid) ==
    IF ~\E r \in S : r.uuid = uuid THEN "none"
    ELSE IF StationRow(S, uuid).deletedAt = Null THEN "active" ELSE "deleted"

\* INSERT INTO stations ... : the new row, deleted_at NULL
NewStationRow(st) ==
    [uuid |-> st.uuid, name |-> st.name, model |-> st.model, fwVer |-> st.fwVer,
     location |-> st.location, description |-> st.description,
     status |-> st.status, autoCreated |-> st.autoCreated, deletedAt |-> Null]

InsertStationFails(S, st) ==
    NotNullViolation(st.uuid) \/ StationsPrimaryKey(S, st.uuid)

\* (variant: the update forgets deleted_at)
UpsertUpdateKeepsDeleted(row, st) ==
    [row EXCEPT !.model = IF Truthy(st.model) THEN st.model ELSE @,
                !.fwVer = IF Truthy(st.fwVer) THEN st.fwVer ELSE @,
                !.location = IF st.location # Null THEN st.location ELSE @]

\* the SET clause of the update in upsertStationForTelemetry
UpsertUpdateValues(row, st) ==
    [row EXCEPT !.deletedAt = Null,
                !.model = IF Truthy(st.model) THEN st.model ELSE @,
                !.fwVer = IF Truthy(st.fwVer) THEN st.fwVer ELSE @,
                !.location = IF st.location # Null THEN st.location ELSE @]

\* UPDATE stations SET ... WHERE uuid = st.uuid
UpsertUpdate(S, st) ==
    {IF r.uuid = st.uuid THEN UpsertUpdateValues(r, st) ELSE r : r \in S}

\* (variant: a hard delete)
HardDelete(S, uuid) == {r \in S : r.uuid # uuid}

\* UPDATE stations SET deleted_at = now() WHERE uuid = uuid
SoftDeleteUpdate(S, uuid) ==
    {IF r.uuid = uuid THEN [r EXCEPT !.deletedAt = "ts"] ELSE r : r \in S}

\* a slip: the existence check forgets deleted_at IS NULL
AnyStationExists(S, uuid) == \E r \in S : r.uuid = uuid

\* SELECT uuid FROM stations WHERE uuid = uuid AND deleted_at IS NULL
ActiveStationExists(S, uuid) ==
    \E r \in S : r.uuid = uuid /\ r.deletedAt = Null

\* the update object built by updateStation from the provided fields
UpdateValues(row, upd) ==
    [f \in DOMAIN row |-> IF f \in DOMAIN upd THEN upd[f] ELSE row[f]]

\* UPDATE stations SET ... WHERE uuid = uuid AND deleted_at IS NULL
UpdateStationRows(S, uuid, upd) ==
    {IF r.uuid = uuid /\ r.deletedAt = Null THEN UpdateValues(r, upd) ELSE r : r \in S}

-----------------------------------------------------------------------------
(* SenML normalizer *)

FixedColumns ==
    {"temp", "hum", "pres", "pm1", "pm25", "pm10", "no", "no2", "o3", "so2",
     "co", "h2s", "nh3", "co2", "voc", "noise", "solar_rad", "rain_rate",
     "wind_dir", "wind_spd", "lux"}

Has(m, f) == f \in DOMAIN m     \* m.f !== undefined

\* parseFloat on the strings of the model: a numeric prefix parses, else NaN
ParseFloat(s) ==
    CASE s = "3" -> Num(3)
      [] s = "0" -> Num(0)
      [] s = "2x" -> Num(2)
      [] OTHER -> NoNumber

\* a slip: the boolean value is looked at before the string value
MeasureValueBooleanFirst(m) ==
    IF Has(m, "v") THEN Num(m.v)
    ELSE IF Has(m, "vb") THEN (IF m.vb THEN Num(1) ELSE Num(0))
    ELSE IF Has(m, "vs") THEN ParseFloat(m.vs)
    ELSE NoNumber

\* a slip: v is tested for truthiness, so a reading of 0 counts as absent
MeasureValueTruthy(m) ==
    IF Has(m, "v") /\ m.v # 0 THEN Num(m.v)
    ELSE IF Has(m, "vs") THEN ParseFloat(m.vs)
    ELSE IF Has(m, "vb") THEN (IF m.vb THEN Num(1) ELSE Num(0))
    ELSE NoNumber

\* value of one measure: v, else vs parsed, else vb, else null
MeasureValue(m) ==
    IF Has(m, "v") THEN Num(m.v)
    ELSE IF Has(m, "vs") THEN ParseFloat(m.vs)
    ELSE IF Has(m, "vb") THEN (IF m.vb THEN Num(1) ELSE Num(0))
    ELSE NoNumber

\* measures[0]?.bt ? new Date(bt * 1000) : ingestionTime
BaseTime(measures, ingestionTime) ==
    IF Len(measures) > 0 /\ Has(measures[1], "bt") /\ measures[1].bt # 0
    THEN measures[1].bt * MsPerSecond
    ELSE ingestionTime

MeasureTime(m, baseTime) ==
    IF Has(m, "t") THEN baseTime + m.t * MsPerSecond ELSE baseTime

\* the loop over the measures, from the initial point
RECURSIVE ApplyMeasures(_, _, _, _)
ApplyMeasures(point, measures, i, baseTime) ==
    IF i > Len(measures) THEN point
    ELSE LET m == measures[i]
             mt == MeasureTime(m, baseTime)
             value == MeasureValue(m)
             p1 == IF mt > point.time THEN [point EXCEPT !.time = mt] ELSE point
             p2 == IF m.n \in FixedColumns
                   THEN [p1 EXCEPT !.cols[m.n] = value]
                   ELSE IF value # NoNumber
                        THEN [p1 EXCEPT !.extras =
                                 [k \in DOMAIN @ \cup {m.n} |->
                                     IF k = m.n THEN value ELSE @[k]]]
                        ELSE p1
         IN ApplyMeasures(p2, measures, i + 1, baseTime)

senmlToDbNew(payload, ingestionTime) ==
    LET baseTime == BaseTime(payload.measures, ingestionTime)
        point == [time |-> baseTime,
                  deviceUuid |-> payload.uuid,
                  fwVer |-> OrNull(payload.fw_ver),
                  model |-> OrNull(payload.model),
                  ingestedAt |-> ingestionTime,
                  cols |-> [c \in FixedColumns |-> NoNumber],
                  extras |-> <<>>]
    IN ApplyMeasures(point, payload.measures, 1, baseTime)

-----------------------------------------------------------------------------
(* Table telemetry_raw *)

\* PRIMARY KEY (device_uuid, time)
TelemetryPrimaryKey(T, point) ==
    \E r \in T : r.deviceUuid = point.deviceUuid /\ r.time = point.time

\* FOREIGN KEY (device_uuid) REFERENCES stations(uuid)
TelemetryForeignKey(S, point) == \E r \in S : r.uuid = point.deviceUuid

\* cursor_id DEFAULT gen_random_uuid(): any value no row holds yet
FreshCursorIds(T) == CursorIds \ {r.cursorId : r \in T}

InsertTelemetryFails(S, T, point) ==
    TelemetryPrimaryKey(T, point) \/ ~TelemetryForeignKey(S, point)

TelemetryRow(point, cursorId) ==
    [cursorId |-> cursorId, time |-> point.time, deviceUuid |-> point.deviceUuid,
     fwVer |-> point.fwVer, model |-> point.model, ingestedAt |-> point.ingestedAt,
     cols |-> point.cols, extras |-> point.extras]

-----------------------------------------------------------------------------
(* Inbound messages *)

Measure1 == [n |-> "temp", v |-> 0]
Measure2 == [n |-> "hum", bt |-> 1, t |-> 1, vs |-> "2x"]

ValidPayload(uuid, model, measures) ==
    [json |-> TRUE, isNull |-> FALSE, device_info |-> TRUE, uuid |-> uuid,
     model |-> model, fw_ver |-> "1.0", measures_kind |-> "array",
     measures |-> measures]

ValidPayloads ==
    UNION {{ValidPayload(u, Undef, <<Measure1>>),
            ValidPayload(u, "", <<Measure1>>),
            ValidPayload(u, "m2", <<Measure2, Measure1>>)} : u \in UUIDs}

MalformedPayload(json, isNull, device_info, uuid, kind) ==
    [json |-> json, isNull |-> isNull, device_info |-> device_info, uuid |-> uuid,
     model |-> Undef, fw_ver |-> "1.0", measures_kind |-> kind, measures |-> <<>>]

NotJson == MalformedPayload(FALSE, FALSE, FALSE, Undef, "missing")
JsonNull == MalformedPayload(TRUE, TRUE, FALSE, Undef, "missing")
NoDeviceInfo == MalformedPayload(TRUE, FALSE, FALSE, Undef, "array")
NoMeasures == MalformedPayload(TRUE, FALSE, TRUE, "d1", "missing")
MeasuresNotArray == MalformedPayload(TRUE, FALSE, TRUE, "d1", "notarray")
NoUuid == MalformedPayload(TRUE, FALSE, TRUE, Undef, "array")

Payloads ==
    ValidPayloads \cup
    {NotJson, JsonNull, NoDeviceInfo, NoMeasures, MeasuresNotArray, NoUuid}

\* the checks of ingestTelemetry before it touches the service:
\* "" when the payload passes, else the stage that rejects it
RejectedAt(p) ==
    IF ~p.json THEN "parse"
    ELSE IF p.isNull THEN "validate"
    ELSE IF ~p.device_info \/ p.measures_kind # "array" THEN "validate"
    ELSE ""

\* the error raised by that stage
RejectionError(p) ==
    IF ~p.json THEN "ParsingError"
    ELSE IF p.isNull THEN "TypeError"
    ELSE "ParsingError"

\* the station descriptor ingestTelemetry passes to upsertStationForTelemetry
StationOf(p) ==
    [uuid |-> p.uuid, name |-> Null, model |-> OrNull(p.model),
     fwVer |-> OrNull(p.fw_ver), location |-> Null, description |-> Null,
     status |-> "pending", autoCreated |-> TRUE]

NoRow == [uuid |-> Undef]

IdleHandler ==
    [pc |-> "idle", payload |-> NotJson, existing |-> FALSE, found |-> "",
     station |-> NoRow, failedAt |-> "", error |-> "", logged |-> "",
     upserts |-> 0, inserts |-> 0, stmts |-> 0]

\* a typed failure reaches Effect.catchAll (logError); a defect escapes it and
\* reaches the try/catch of the message listener (console.error)
LoggedBy(error) == IF error = "TypeError" THEN "consoleError" ELSE "logError"

\* (variant: the failure escapes the handler and ends the process)
ListenerCrashes(error) == "crashed"

\* the listener after a handler failure: both catches swallow the error
ListenerAfterFailure(error) == "subscribed"

\* (variant: a storage failure is retried from the start of the upsert)
RetryAfterFailure(stage) ==
    IF stage \in {"upsert", "insert"} THEN "probe" ELSE "failed"

\* where a handler goes after a failure: it ends, nothing is retried
PcAfterFailure(stage) == "failed"

Fail(h, stage, error) ==
    [h EXCEPT !.pc = PcAfterFailure(stage), !.failedAt = stage, !.error = error,
              !.logged = LoggedBy(error)]

-----------------------------------------------------------------------------
(* The telemetry listener and the ingestion of one message *)

\* startTelemetryListener: subscribe and attach the message handler
StartTelemetryListener ==
    /\ listener = "idle"
    /\ listener' = "subscribed"
    /\ UNCHANGED <<stations, telemetry, handler, api, walk, http, paged, call>>

\* a message arrives: JSON.parse and the shape check run
Deliver(m) ==
    /\ listener = "subscribed"
    /\ handler[m].pc = "idle"
    /\ m > 1 => handler[m - 1].pc # "idle"
    /\ \E p \in Payloads :
          LET h == [handler[m] EXCEPT !.payload = p] IN
          IF RejectedAt(p) # ""
          THEN /\ handler' = [handler EXCEPT ![m] = Fail(h, RejectedAt(p), RejectionError(p))]
               /\ listener' = ListenerAfterFailure(RejectionError(p))
          ELSE /\ handler' = [handler EXCEPT ![m] = [h EXCEPT !.pc = "probe"]]
               /\ listener' = listener
    /\ UNCHANGED <<stations, telemetry, api, walk, http, paged, call>>

\* upsertStationForTelemetry is called; its first statement:
\* SELECT uuid FROM stations LIMIT 1
UpsertProbe(m) ==
    /\ listener = "subscribed"
    /\ handler[m].pc = "probe"
    /\ handler' = [handler EXCEPT ![m].pc = "check", ![m].stmts = @ + 1,
                                  ![m].upserts = @ + 1]
    /\ UNCHANGED <<stations, telemetry, listener, api, walk, http, paged, call>>

\* second statement: SELECT uuid, created_at FROM stations WHERE uuid = ...
UpsertCheck(m) ==
    /\ listener = "subscribed"
    /\ handler[m].pc = "check"
    /\ handler' = [handler EXCEPT
          ![m].pc = "write", ![m].stmts = @ + 1,
          ![m].existing = \E r \in stations : r.uuid = handler[m].payload.uuid]
    /\ UNCHANGED <<stations, telemetry, listener, api, walk, http, paged, call>>

\* third statement: the UPDATE when a row was found, else the INSERT
UpsertWrite(m) ==
    /\ listener = "subscribed"
    /\ handler[m].pc = "write"
    /\ LET st == StationOf(handler[m].payload)
           h == [handler[m] EXCEPT !.stmts = @ + 1, !.found = RowState(stations, st.uuid)]
           S1 == IF handler[m].existing THEN UpsertUpdate(stations, st)
                 ELSE stations \cup {NewStationRow(st)}
           fails == IF handler[m].existing
                    THEN ~\E r \in stations : r.uuid = st.uuid
                    ELSE InsertStationFails(stations, st)
       IN IF fails
          THEN /\ handler' = [handler EXCEPT ![m] = Fail(h, "upsert", "DatabaseError")]
               /\ listener' = ListenerAfterFailure("DatabaseError")
               /\ stations' = stations
          ELSE /\ handler' = [handler EXCEPT ![m] =
                      [h EXCEPT !.pc = "insert", !.station = StationRow(S1, st.uuid)]]
               /\ listener' = listener
               /\ stations' = S1
    /\ UNCHANGED <<telemetry, api, walk, http, paged, call>>

\* (variant: upsert and insert share a transaction, and a failed insert takes
\* back the station row its message created)
ReconcileRolledBack(S, h) ==
    IF h.found = "none" THEN {r \in S : r.uuid # h.payload.uuid} ELSE S

\* the stations after a failed insert: the upsert was committed by its own
\* statements, and the catch of insertTelemetry only maps the error
StationsAfterFailedInsert(S, h) == S

\* senmlToDbNew at the current wall clock, then insertTelemetry
InsertTelemetry(m) ==
    /\ listener = "subscribed"
    /\ handler[m].pc = "insert"
    /\ \E now \in ClockValues, c \in FreshCursorIds(telemetry) :
          LET point == senmlToDbNew(handler[m].payload, now)
              h == [handler[m] EXCEPT !.stmts = @ + 1, !.inserts = @ + 1]
          IN IF InsertTelemetryFails(stations, telemetry, point)
             THEN /\ handler' = [handler EXCEPT ![m] = Fail(h, "insert", "DatabaseError")]
                  /\ listener' = ListenerAfterFailure("DatabaseError")
                  /\ telemetry' = telemetry
                  /\ stations' = StationsAfterFailedInsert(stations, h)
             ELSE /\ handler' = [handler EXCEPT ![m] =
                         [h EXCEPT !.pc = "done", !.logged = "logInfo"]]
                  /\ listener' = listener
                  /\ telemetry' = telemetry \cup {TelemetryRow(point, c)}
                  /\ stations' = stations
    /\ UNCHANGED <<api, walk, http, paged, call>>

HandlerStep(m) ==
    UpsertProbe(m) \/ UpsertCheck(m) \/ UpsertWrite(m) \/ InsertTelemetry(m)

-----------------------------------------------------------------------------
(* Station API calls *)

\* toDbNew of the create requests of the model
CreateRequests ==
    {[uuid |-> u, name |-> "n1", model |-> "m1", fwVer |-> Null, location |-> "loc1",
      description |-> "desc1", status |-> "active", autoCreated |-> FALSE] : u \in UUIDs}

\* toDbUpdate of the update requests of the model: the provided fields only
UpdateRequests ==
    {[name |-> "n2", status |-> "retired"], [model |-> Null, location |-> Null]}

IdleCall == [pc |-> "idle", op |-> "", uuid |-> Undef, upd |-> <<>>, result |-> ""]

\* createStation: one INSERT
CreateStation(a) ==
    /\ api[a].pc = "idle"
    /\ \E st \in CreateRequests :
          IF InsertStationFails(stations, st)
          THEN /\ api' = [api EXCEPT ![a] = [@ EXCEPT !.pc = "done", !.op = "create",
                              !.uuid = st.uuid, !.result = "DatabaseError"]]
               /\ stations' = stations
          ELSE /\ api' = [api EXCEPT ![a] = [@ EXCEPT !.pc = "done", !.op = "create",
                              !.uuid = st.uuid, !.result = "ok"]]
               /\ stations' = stations \cup {NewStationRow(st)}
    /\ UNCHANGED <<telemetry, listener, handler, walk, http, paged, call>>

\* updateStation, first statement: the existence check
UpdateStationCheck(a) ==
    /\ api[a].pc = "idle"
    /\ \E u \in UUIDs, upd \in UpdateRequests :
          api' = [api EXCEPT ![a] =
             IF ActiveStationExists(stations, u)
             THEN [@ EXCEPT !.pc = "write", !.op = "update", !.uuid = u, !.upd = upd]
             ELSE [@ EXCEPT !.pc = "done", !.op = "update", !.uuid = u, !.upd = upd,
                            !.result = "NotFoundError"]]
    /\ UNCHANGED <<stations, telemetry, listener, handler, walk, http, paged, call>>

\* updateStation, second statement: UPDATE ... WHERE uuid AND deleted_at IS NULL,
\* executeTakeFirstOrThrow
UpdateStationWrite(a) ==
    /\ api[a].pc = "write"
    /\ api[a].op = "update"
    /\ IF ActiveStationExists(stations, api[a].uuid)
       THEN /\ stations' = UpdateStationRows(stations, api[a].uuid, api[a].upd)
            /\ api' = [api EXCEPT ![a].pc = "done", ![a].result = "ok"]
       ELSE /\ stations' = stations
            /\ api' = [api EXCEPT ![a].pc = "done", ![a].result = "DatabaseError"]
    /\ UNCHANGED <<telemetry, listener, handler, walk, http, paged, call>>

\* softDeleteStation, first statement: the existence check
SoftDeleteCheck(a) ==
    /\ api[a].pc = "idle"
    /\ \E u \in UUIDs :
          api' = [api EXCEPT ![a] =
             IF ActiveStationExists(stations, u)
             THEN [@ EXCEPT !.pc = "write", !.op = "delete", !.uuid = u]
             ELSE [@ EXCEPT !.pc = "done", !.op = "delete", !.uuid = u,
                            !.result = "NotFoundError"]]
    /\ UNCHANGED <<stations, telemetry, listener, handler, walk, http, paged, call>>

\* softDeleteStation, second statement: UPDATE ... SET deleted_at = now()
SoftDeleteWrite(a) ==
    /\ api[a].pc = "write"
    /\ api[a].op = "delete"
    /\ stations' = SoftDeleteUpdate(stations, api[a].uuid)
    /\ api' = [api EXCEPT ![a].pc = "done", ![a].result = "ok"]
    /\ UNCHANGED <<telemetry, listener, handler, walk, http, paged, call>>

ApiStep(a) ==
    \/ CreateStation(a)
    \/ UpdateStationCheck(a)
    \/ UpdateStationWrite(a)
    \/ SoftDeleteCheck(a)
    \/ SoftDeleteWrite(a)

-----------------------------------------------------------------------------
(* The ingestion and station system *)

NoWalk == [pc |-> "none"]

\* no HTTP request has been received
NoRequest == [pc |-> "idle"]

\* no pagination engine has been called
NotPaged == [pc |-> "none"]

\* no pure helper has been called
NoCall == [pc |-> "none"]

Init ==
    /\ stations = {}
    /\ telemetry = {}
    /\ listener = "idle"
    /\ handler = [m \in Msgs |-> IdleHandler]
    /\ api = [a \in Calls |-> IdleCall]
    /\ walk = NoWalk
    /\ http = NoRequest
    /\ paged = NotPaged
    /\ call = NoCall

Next ==
    \/ StartTelemetryListener
    \/ \E m \in Msgs : Deliver(m)
    \/ \E m \in Msgs : UpsertProbe(m)
    \/ \E m \in Msgs : UpsertCheck(m)
    \/ \E m \in Msgs : UpsertWrite(m)
    \/ \E m \in Msgs : InsertTelemetry(m)
    \/ \E a \in Calls : CreateStation(a)
    \/ \E a \in Calls : UpdateStationCheck(a)
    \/ \E a \in Calls : UpdateStationWrite(a)
    \/ \E a \in Calls : SoftDeleteCheck(a)
    \/ \E a \in Calls : SoftDeleteWrite(a)

Spec == Init /\ [][Next]_vars

\* every started handler step completes: a storage call returns
FairSpec ==
    /\ Spec
    /\ \A m \in Msgs : WF_vars(HandlerStep(m))

-----------------------------------------------------------------------------
(* Cursor codec *)

Pad == 64           \* the symbol '=' ; the symbols 0..63 are the base64 digits
AsciiZero == 48
FirstNonAscii == 128

\* the text of a cursor_id: the ids of the model are one ASCII character long
IdText(c) == <<AsciiZero + c>>

\* Buffer.from(bytes).toString('base64')
RECURSIVE Base64Encode(_)
Base64Encode(bytes) ==
    IF Len(bytes) = 0 THEN <<>>
    ELSE IF Len(bytes) = 1
    THEN LET n == bytes[1] * 65536
         IN <<n \div 262144, (n \div 4096) % 64, Pad, Pad>>
    ELSE IF Len(bytes) = 2
    THEN LET n == bytes[1] * 65536 + bytes[2] * 256
         IN <<n \div 262144, (n \div 4096) % 64, (n \div 64) % 64, Pad>>
    ELSE LET n == bytes[1] * 65536 + bytes[2] * 256 + bytes[3]
         IN <<n \div 262144, (n \div 4096) % 64, (n \div 64) % 64, n % 64>>
            \o Base64Encode(SubSeq(bytes, 4, Len(bytes)))

\* /^[A-Z0-9+/]*={0,2}$/i
Base64Format(cursor) ==
    \E k \in 0..2 :
        /\ k <= Len(cursor)
        /\ \A i \in 1..Len(cursor) :
              IF i > Len(cursor) - k THEN cursor[i] = Pad ELSE cursor[i] \in 0..63

\* Buffer.from(cursor, 'base64') on the digits before the padding
RECURSIVE Base64DecodeDigits(_)
Base64DecodeDigits(d) ==
    IF Len(d) < 2 THEN <<>>
    ELSE IF Len(d) = 2 THEN <<(d[1] * 64 + d[2]) \div 16>>
    ELSE IF Len(d) = 3
    THEN LET n == d[1] * 4096 + d[2] * 64 + d[3]
         IN <<n \div 1024, (n \div 4) % 256>>
    ELSE LET n == ((d[1] * 64 + d[2]) * 64 + d[3]) * 64 + d[4]
         IN <<n \div 65536, (n \div 256) % 256, n % 256>>
            \o Base64DecodeDigits(SubSeq(d, 5, Len(d)))

Base64Decode(cursor) ==
    Base64DecodeDigits(SelectSeq(cursor, LAMBDA x : x # Pad))

\* decoded.includes(U+FFFD): a byte that is no ASCII character does not
\* decode (the texts of the model hold no multi-byte sequence)
HasReplacementChar(bytes) == \E i \in 1..Len(bytes) : bytes[i] >= FirstNonAscii

encodeCursor(id) == Base64Encode(id)

\* the empty sequence stands for an absent (or empty) cursor
decodeCursor(cursor) ==
    IF Len(cursor) = 0 THEN [ok |-> FALSE, error |-> "CursorError", value |-> <<>>]
    ELSE IF ~Base64Format(cursor)
    THEN [ok |-> FALSE, error |-> "CursorError", value |-> <<>>]
    ELSE IF HasReplacementChar(Base64Decode(cursor))
    THEN [ok |-> FALSE, error |-> "CursorError", value |-> <<>>]
    ELSE [ok |-> TRUE, error |-> "", value |-> Base64Decode(cursor)]

-----------------------------------------------------------------------------
(* The telemetry query of the storage service *)

\* NaN, the value of Number(text) for a text that is no number, is an integer
\* no request carries; every comparison with it is false
NaN == 0 - 2147483647

IsNaN(n) == n = NaN

\* the truthiness of a number
TruthyNumber(n) == n # 0 /\ ~IsNaN(n)

\* the uuid column accepts the text of an id only
UuidSyntax(text) == Len(text) = 1 /\ text[1] - AsciiZero \in 0..9

\* the WHERE clauses on the time range and the device
MatchesFilter(r, p) ==
    /\ r.time >= p.startTime
    /\ r.time <= p.endTime
    /\ Truthy(p.deviceUuid) => r.deviceUuid = p.deviceUuid

\* SELECT time, cursor_id ... WHERE cursor_id = text: the rows found
CursorRows(T, text) == {r \in T : IdText(r.cursorId) = text}

\* a slip: the row of the cursor itself passes the forward clause
AfterCursorInclusive(r, c) ==
    r.time < c.time \/ (r.time = c.time /\ r.cursorId >= c.cursorId)

\* forward: (time < cursor time) OR (time = cursor time AND cursor_id > cursor id)
AfterCursor(r, c) ==
    r.time < c.time \/ (r.time = c.time /\ r.cursorId > c.cursorId)

\* backward: (time < cursor time) OR (time = cursor time AND cursor_id < cursor id)
BeforeCursor(r, c) ==
    r.time < c.time \/ (r.time = c.time /\ r.cursorId < c.cursorId)

\* ORDER BY time DESC, ingested_at DESC, cursor_id ASC
ForwardOrder(r, q) ==
    \/ r.time > q.time
    \/ r.time = q.time /\ r.ingestedAt > q.ingestedAt
    \/ r.time = q.time /\ r.ingestedAt = q.ingestedAt /\ r.cursorId < q.cursorId

\* ORDER BY time ASC, ingested_at ASC, cursor_id ASC
BackwardOrder(r, q) ==
    \/ r.time < q.time
    \/ r.time = q.time /\ r.ingestedAt < q.ingestedAt
    \/ r.time = q.time /\ r.ingestedAt = q.ingestedAt /\ r.cursorId < q.cursorId

RowOrder(r, q, backward) ==
    IF backward THEN BackwardOrder(r, q) ELSE ForwardOrder(r, q)

RECURSIVE OrderBy(_, _)
OrderBy(R, backward) ==
    IF R = {} THEN <<>>
    ELSE LET first == CHOOSE r \in R : \A q \in R \ {r} : RowOrder(r, q, backward)
         IN <<first>> \o OrderBy(R \ {first}, backward)

Limit(rows, n) == SubSeq(rows, 1, IF n < Len(rows) THEN n ELSE Len(rows))

Reverse(rows) == [i \in 1..Len(rows) |-> rows[Len(rows) + 1 - i]]

\* the rows the cursor clause keeps
CursorClause(T, R, p) ==
    IF p.isBackward /\ Len(p.beforeCursor) > 0
    THEN IF CursorRows(T, p.beforeCursor) = {} THEN R
         ELSE {r \in R : BeforeCursor(r, CHOOSE c \in CursorRows(T, p.beforeCursor) : TRUE)}
    ELSE IF Len(p.afterCursor) > 0
    THEN IF CursorRows(T, p.afterCursor) = {} THEN R
         ELSE {r \in R : AfterCursor(r, CHOOSE c \in CursorRows(T, p.afterCursor) : TRUE)}
    ELSE R

\* the cursor lookup fails when the text is no uuid
CursorLookupFails(p) ==
    IF p.isBackward /\ Len(p.beforeCursor) > 0 THEN ~UuidSyntax(p.beforeCursor)
    ELSE Len(p.afterCursor) > 0 /\ ~UuidSyntax(p.afterCursor)

\* LIMIT $1 with a parameter that is no integer is rejected by the database
LimitRejected(p) == IsNaN(p.limit)

\* queryTelemetry of the Postgres service: the rows of one page, in output order
SelectTelemetry(T, p) ==
    LET fetched == Limit(OrderBy(CursorClause(T, {r \in T : MatchesFilter(r, p)}, p),
                                 p.isBackward), p.limit)
    IN IF p.isBackward THEN Reverse(fetched) ELSE fetched

-----------------------------------------------------------------------------
(* The telemetry query of the business logic *)

InvalidDate == 0 - 1       \* a time string new Date() cannot parse
BeginningOfTime == 0
FarFuture == 2147483647    \* stands for 2100-01-01T00:00:00.000Z
DefaultLimit == 100
MaxPageLimit == 1000

\* x ?? y on an optional field
FieldOr(req, f, default) == IF Has(req, f) THEN req[f] ELSE default

\* the validation of the request: "" or the field the ValidationError names
RequestError(req) ==
    LET startTime == FieldOr(req, "startTime", BeginningOfTime)
        endTime == FieldOr(req, "endTime", FarFuture)
        first == FieldOr(req, "first", 0)
        last == FieldOr(req, "last", 0)
        limit == IF Has(req, "first") THEN req.first
                 ELSE IF Has(req, "last") THEN req.last ELSE DefaultLimit
    IN IF startTime = InvalidDate THEN "start_time"
       ELSE IF endTime = InvalidDate THEN "end_time"
       ELSE IF startTime >= endTime THEN "time_range"
       ELSE IF TruthyNumber(first) /\ TruthyNumber(last) THEN "pagination"
       ELSE IF Len(FieldOr(req, "after", <<>>)) > 0 /\ Len(FieldOr(req, "before", <<>>)) > 0
       THEN "pagination"
       ELSE IF ~IsNaN(limit) /\ (limit < 1 \/ limit > MaxPageLimit) THEN "pagination"
       ELSE ""

\* the parameters handed to the storage service
QueryParams(req) ==
    [deviceUuid |-> FieldOr(req, "deviceUuid", Undef),
     startTime |-> FieldOr(req, "startTime", BeginningOfTime),
     endTime |-> FieldOr(req, "endTime", FarFuture),
     limit |-> IF Has(req, "first") THEN req.first
               ELSE IF Has(req, "last") THEN req.last ELSE DefaultLimit,
     afterCursor |-> decodeCursor(FieldOr(req, "after", <<>>)).value,
     beforeCursor |-> decodeCursor(FieldOr(req, "before", <<>>)).value,
     isBackward |-> TruthyNumber(FieldOr(req, "last", 0))
                    \/ Len(FieldOr(req, "before", <<>>)) > 0]

\* toApi: the node of an edge carries the columns, not the cursor_id
TelemetryToApi(row) ==
    [time |-> row.time, deviceUuid |-> row.deviceUuid, fwVer |-> row.fwVer,
     model |-> row.model, ingestedAt |-> row.ingestedAt, cols |-> row.cols,
     extras |-> row.extras]

\* the Relay-style result built from the fetched rows
createPaginatedResultWithCursor(rows, limit, after, before, isBackward) ==
    LET edges == [i \in 1..Len(rows) |->
                     [cursor |-> encodeCursor(IdText(rows[i].cursorId)),
                      node |-> TelemetryToApi(rows[i])]]
    IN [edges |-> edges,
        hasNextPage |-> IF isBackward THEN Len(before) > 0 ELSE Len(edges) = limit,
        hasPreviousPage |-> IF isBackward THEN Len(edges) = limit ELSE Len(after) > 0,
        startCursor |-> IF Len(edges) = 0 THEN <<>> ELSE edges[1].cursor,
        endCursor |-> IF Len(edges) = 0 THEN <<>> ELSE edges[Len(edges)].cursor]

NoPage ==
    [edges |-> <<>>, hasNextPage |-> FALSE, hasPreviousPage |-> FALSE,
     startCursor |-> <<>>, endCursor |-> <<>>]

\* the outcome of a request whose parameters are p
QueryOutcome(T, req, p) ==
    LET after == FieldOr(req, "after", <<>>)
        before == FieldOr(req, "before", <<>>)
    IN IF RequestError(req) # ""
       THEN [ok |-> FALSE, error |-> "ValidationError", queried |-> FALSE,
             rows |-> <<>>, page |-> NoPage]
       ELSE IF (Len(after) > 0 /\ ~decodeCursor(after).ok)
               \/ (Len(before) > 0 /\ ~decodeCursor(before).ok)
       THEN [ok |-> FALSE, error |-> "CursorError", queried |-> FALSE,
             rows |-> <<>>, page |-> NoPage]
       ELSE IF CursorLookupFails(p) \/ LimitRejected(p)
       THEN [ok |-> FALSE, error |-> "DatabaseError", queried |-> TRUE,
             rows |-> <<>>, page |-> NoPage]
       ELSE CHOOSE result \in
                {[ok |-> TRUE, error |-> "", queried |-> TRUE,
                  rows |-> rows,
                  page |-> createPaginatedResultWithCursor(
                               rows, p.limit, after, before, p.isBackward)] :
                    rows \in {SelectTelemetry(T, p)}} : TRUE

\* queryTelemetry of the business logic: validate, decode, query, paginate
queryTelemetry(T, req) ==
    CHOOSE result \in {QueryOutcome(T, req, p) : p \in {QueryParams(req)}} : TRUE

-----------------------------------------------------------------------------
(* A client walks the telemetry pages while devices keep reporting *)

MaxPages == MaxRows + 1

\* the cursor ids gen_random_uuid() can draw for the rows of the walked table
PageCursorIds == 1..MaxRows

\* the stations the reporting devices have auto-created
ReportingStations == {NewStationRow(StationOf(p)) : p \in {ValidPayload(u, Undef, <<Measure1>>) : u \in UUIDs}}

\* the requests of a forward walk: a page size, and possibly a device and a start
WalkRequests ==
    {[first |-> n] : n \in 1..MaxLimit}
    \cup {[first |-> n, deviceUuid |-> "d1"] : n \in 1..MaxLimit}
    \cup {[first |-> n, startTime |-> MaxClock * MsPerSecond] : n \in 1..MaxLimit}

PageIds(result) == [i \in 1..Len(result.rows) |-> result.rows[i].cursorId]

\* the client asks for the next page while the last one has edges and a next page
WalkPc(result) ==
    IF result.ok /\ Len(result.page.edges) > 0 /\ result.page.hasNextPage
    THEN "paging" ELSE "done"

PageInit ==
    /\ stations = ReportingStations
    /\ telemetry = {}
    /\ listener = "subscribed"
    /\ handler = [m \in Msgs |-> IdleHandler]
    /\ api = [a \in Calls |-> IdleCall]
    /\ walk = NoWalk
    /\ http = NoRequest
    /\ paged = NotPaged
    /\ call = NoCall

\* a device's message is ingested: its point is inserted into telemetry_raw
IngestPoint ==
    /\ Cardinality(telemetry) < MaxRows
    /\ \E payload \in ValidPayloads, now \in ClockValues, c \in PageCursorIds \ {r.cursorId : r \in telemetry} :
          LET point == senmlToDbNew(payload, now)
          IN /\ ~InsertTelemetryFails(stations, telemetry, point)
             /\ telemetry' = telemetry \cup {TelemetryRow(point, c)}
    /\ walk' = IF walk.pc = "paging" THEN [walk EXCEPT !.static = FALSE] ELSE walk
    /\ UNCHANGED <<stations, listener, handler, api, http, paged, call>>

\* the first request of a walk carries no cursor
FirstPage ==
    /\ walk.pc = "none"
    /\ \E req \in WalkRequests :
          \E result \in {queryTelemetry(telemetry, req)} :
             walk' = [pc |-> WalkPc(result),
                      req |-> req,
                      after |-> result.page.endCursor,
                      visited |-> PageIds(result),
                      pages |-> 1,
                      snapshot |-> {r.cursorId : r \in {x \in telemetry :
                                                          MatchesFilter(x, QueryParams(req))}},
                      static |-> TRUE]
    /\ UNCHANGED <<stations, telemetry, listener, handler, api, http, paged, call>>

\* every later request carries after = the endCursor of the page before
NextPage ==
    /\ walk.pc = "paging"
    /\ walk.pages < MaxPages
    /\ \E result \in {queryTelemetry(telemetry, [after |-> walk.after] @@ walk.req)} :
          walk' = [walk EXCEPT !.pc = WalkPc(result),
                               !.after = result.page.endCursor,
                               !.visited = walk.visited \o PageIds(result),
                               !.pages = walk.pages + 1]
    /\ UNCHANGED <<stations, telemetry, listener, handler, api, http, paged, call>>

PageNext == IngestPoint \/ FirstPage \/ NextPage

PageSpec == PageInit /\ [][PageNext]_vars

-----------------------------------------------------------------------------
(* A client walks the telemetry pages of a table that does not change *)

\* the rows ingestion can have written
IngestedRows ==
    {TelemetryRow(senmlToDbNew(payload, now), c) :
        payload \in ValidPayloads, now \in ClockValues, c \in PageCursorIds}

\* the tables of at most MaxRows rows that respect the primary key and hold
\* distinct cursor ids
StaticTables ==
    {T \in {{f[i] : i \in DOMAIN f} : f \in UNION {[1..k -> IngestedRows] : k \in 0..MaxRows}} :
        \A r, q \in T :
            r # q => /\ r.cursorId # q.cursorId
                     /\ ~(r.deviceUuid = q.deviceUuid /\ r.time = q.time)}

StaticInit ==
    /\ stations = ReportingStations
    /\ telemetry \in StaticTables
    /\ listener = "subscribed"
    /\ handler = [m \in Msgs |-> IdleHandler]
    /\ api = [a \in Calls |-> IdleCall]
    /\ walk = NoWalk
    /\ http = NoRequest
    /\ paged = NotPaged
    /\ call = NoCall

\* after a last page that had edges but no next page, the client still asks
\* for the page after its endCursor
PageAfterLast ==
    /\ walk.pc = "done"
    /\ Len(walk.after) > 0
    /\ \E result \in {queryTelemetry(telemetry, [after |-> walk.after] @@ walk.req)} :
          walk' = [pc |-> "beyond", beyond |-> PageIds(result)] @@ walk
    /\ UNCHANGED <<stations, telemetry, listener, handler, api, http, paged, call>>

StaticNext == FirstPage \/ NextPage \/ PageAfterLast

\* the client sends its first request, and the next one after each page
StaticWalkSpec ==
    /\ StaticInit
    /\ [][StaticNext]_vars
    /\ WF_vars(FirstPage)
    /\ WF_vars(NextPage)

-----------------------------------------------------------------------------
(* GET /telemetry: one request, from the query string to the result *)

\* Number(text) for the texts the requests of the model carry
ToNumber(text) ==
    CASE text = "0" -> 0
      [] text = "1" -> 1
      [] text = "2" -> 2
      [] text = "1000" -> 1000
      [] text = "1001" -> 1001
      [] text = "-1" -> 0 - 1
      [] OTHER -> NaN

\* the fields of a record that are present and named in F
Pick(r, F) == [f \in F \cap DOMAIN r |-> r[f]]

\* paramExtractor: the request handed to the business logic; a field the query
\* string lacks is undefined, first and last go through Number() when truthy
paramExtractor(query) ==
    LET passed == Pick(query, {"startTime", "endTime", "deviceUuid", "after", "before"})
        first == IF Has(query, "first") /\ query.first # ""
                 THEN [first |-> ToNumber(query.first)] ELSE <<>>
        last == IF Has(query, "last") /\ query.last # ""
                THEN [last |-> ToNumber(query.last)] ELSE <<>>
    IN passed @@ first @@ last

\* cursors a client can send
CursorOf(c) == encodeCursor(IdText(c))
MalformedCursor == <<Pad, 12>>                \* "=M"
NotUuidCursor == encodeCursor(<<65>>)          \* the cursor of the text "A"
RowCursors == {CursorOf(c) : c \in PageCursorIds}

\* the query strings of the model
PagingQueries ==
    {l @@ c : l \in {[first |-> "1"], [first |-> "2"], [last |-> "1"], [last |-> "2"]},
              c \in {<<>>} \cup {[after |-> x] : x \in RowCursors}
                           \cup {[before |-> x] : x \in RowCursors}}

LimitQueries ==
    {[first |-> t] : t \in {"", "0", "-1", "1000", "1001", "abc"}}
    \cup {[last |-> t] : t \in {"0", "1001", "abc"}}
    \cup {<<>>, [first |-> "1", last |-> "1"], [first |-> "abc", last |-> "1"]}

CursorQueries ==
    {[first |-> "1", after |-> MalformedCursor],
     [first |-> "1", after |-> NotUuidCursor],
     [last |-> "1", before |-> MalformedCursor],
     [last |-> "1", before |-> NotUuidCursor],
     [first |-> "1", after |-> CursorOf(1), before |-> CursorOf(1)],
     [after |-> CursorOf(1)],
     [before |-> CursorOf(1)]}

FilterQueries ==
    {[first |-> "2"] @@ f :
        f \in {[startTime |-> MaxClock * MsPerSecond],
               [endTime |-> MsPerSecond],
               [startTime |-> MsPerSecond, endTime |-> MsPerSecond],
               [startTime |-> MaxClock * MsPerSecond, endTime |-> MsPerSecond],
               [startTime |-> InvalidDate],
               [endTime |-> InvalidDate],
               [deviceUuid |-> "d1"],
               [deviceUuid |-> ""]}}

Queries == PagingQueries \cup LimitQueries \cup CursorQueries \cup FilterQueries

QueryInit ==
    /\ stations = ReportingStations
    /\ telemetry = {}
    /\ listener = "subscribed"
    /\ handler = [m \in Msgs |-> IdleHandler]
    /\ api = [a \in Calls |-> IdleCall]
    /\ walk = NoWalk
    /\ http = NoRequest
    /\ paged = NotPaged
    /\ call = NoCall

\* the handler of GET /telemetry: extract the parameters, run queryTelemetry
HttpQueryTelemetry ==
    /\ http.pc = "idle"
    /\ \E query \in Queries :
          LET req == paramExtractor(query)
              result == queryTelemetry(telemetry, req)
          IN http' = [pc |-> IF result.ok THEN "replied" ELSE "failed",
                      query |-> query,
                      req |-> req,
                      params |-> QueryParams(req),
                      field |-> RequestError(req),
                      error |-> result.error,
                      queried |-> result.queried,
                      rows |-> result.rows,
                      page |-> result.page]
    /\ UNCHANGED <<stations, telemetry, listener, handler, api, walk, paged, call>>

\* devices report until the request arrives
ReportBeforeRequest == http.pc = "idle" /\ IngestPoint

QueryNext == ReportBeforeRequest \/ HttpQueryTelemetry

QuerySpec == QueryInit /\ [][QueryNext]_vars

-----------------------------------------------------------------------------
(* The pagination engines *)

\* a slip: the cursor of the first edge, whichever edge is asked for
FirstCursorOnly(edges, i) == IF Len(edges) = 0 THEN <<>> ELSE <<edges[1].cursor>>

\* x?.cursor: <<>> when there is no edge, <<cursor>> otherwise
OptionalCursor(edges, i) == IF Len(edges) = 0 THEN <<>> ELSE <<edges[i].cursor>>

\* a slip: a page counts as full as soon as it has an edge
PageInfoAnyEdge(edges, params) ==
    [hasNextPage |-> Len(edges) > 0,
     hasPreviousPage |-> Len(params.after) > 0,
     startCursor |-> OptionalCursor(edges, 1),
     endCursor |-> OptionalCursor(edges, Len(edges))]

\* the page info every engine computes from its edges and its parameters
PageInfo(edges, params) ==
    [hasNextPage |-> Len(edges) = params.limit,
     hasPreviousPage |-> Len(params.after) > 0,
     startCursor |-> OptionalCursor(edges, 1),
     endCursor |-> OptionalCursor(edges, Len(edges))]

\* a slip: the text of an instant keeps whole seconds only
IsoTextWholeSeconds(time) ==
    <<AsciiZero + (time \div MsPerSecond), 46, AsciiZero, AsciiZero, AsciiZero>>

\* time.toISOString(), abridged to "<seconds>.<three digits of milliseconds>"
IsoText(time) ==
    <<AsciiZero + (time \div MsPerSecond), 46,
      AsciiZero + ((time % MsPerSecond) \div 100),
      AsciiZero + ((time % 100) \div 10),
      AsciiZero + (time % 10)>>

\* the text of a device uuid, abridged to its digit
DeviceText(deviceUuid) == <<AsciiZero + (IF deviceUuid = "d1" THEN 1 ELSE 2)>>

\* JSON.stringify({deviceUuid, time: time.toISOString()}), abridged to
\* "{<uuid digit>,<ISO text>}"
CompositeText(deviceUuid, time) ==
    <<123>> \o DeviceText(deviceUuid) \o <<44>> \o IsoText(time) \o <<125>>

encodeCompositeCursor(deviceUuid, time) == Base64Encode(CompositeText(deviceUuid, time))

\* toApi of the caller: the API view of a row
NodeOf(row) == [deviceUuid |-> row.deviceUuid, time |-> row.time]

createPaginatedResult(rows, params) ==
    LET edges == [i \in 1..Len(rows) |->
                     [cursor |-> encodeCursor(rows[i].id), node |-> NodeOf(rows[i])]]
    IN [edges |-> edges, pageInfo |-> PageInfo(edges, params)]

createPaginatedResultWithId(rows, params, getId) ==
    LET edges == [i \in 1..Len(rows) |->
                     [cursor |-> encodeCursor(getId[rows[i]]), node |-> NodeOf(rows[i])]]
    IN [edges |-> edges, pageInfo |-> PageInfo(edges, params)]

createPaginatedResultWithCompositeCursor(rows, params, getCompositeId) ==
    LET edges == [i \in 1..Len(rows) |->
                     [cursor |-> encodeCompositeCursor(getCompositeId[rows[i]].deviceUuid,
                                                       getCompositeId[rows[i]].time),
                      node |-> NodeOf(rows[i])]]
    IN [edges |-> edges, pageInfo |-> PageInfo(edges, params)]

\* the rows a caller can hand to an engine
EngineRow(c) ==
    [id |-> IdText(c), cursorId |-> IdText(c),
     deviceUuid |-> IF c % 2 = 1 THEN "d1" ELSE "d2",
     time |-> ((c % MaxClock) + 1) * MsPerSecond]

\* the windows of at most MaxRows distinct rows
Windows ==
    {w \in UNION {[1..n -> {EngineRow(c) : c \in 1..MaxRows}] : n \in 0..MaxRows} :
        \A i, j \in 1..Len(w) : i # j => w[i] # w[j]}

Engines == {"createPaginatedResult", "createPaginatedResultWithId",
            "createPaginatedResultWithCompositeCursor"}

\* the id callbacks a caller passes to the engines, as functions of the row
CursorIdOf == [row \in {EngineRow(c) : c \in 1..MaxRows} |-> row.cursorId]

CompositeIdOf ==
    [row \in {EngineRow(c) : c \in 1..MaxRows} |->
        [deviceUuid |-> row.deviceUuid, time |-> row.time]]

RunEngine(engine, rows, params) ==
    CASE engine = "createPaginatedResult" -> createPaginatedResult(rows, params)
      [] engine = "createPaginatedResultWithId" ->
            createPaginatedResultWithId(rows, params, CursorIdOf)
      [] OTHER -> createPaginatedResultWithCompositeCursor(rows, params, CompositeIdOf)

\* a caller assembles a page from a fetched window
Paginate ==
    \E engine \in Engines, rows \in Windows, limit \in 1..MaxLimit,
       after \in {<<>>, CursorOf(1)} :
        /\ paged' = [pc |-> "paged", engine |-> engine, rows |-> rows,
                     params |-> [limit |-> limit, after |-> after],
                     result |-> RunEngine(engine, rows, [limit |-> limit, after |-> after])]
        /\ UNCHANGED <<stations, telemetry, listener, handler, api, walk, http, call>>

EngineInit == Init

EngineNext == Paginate

EngineSpec == EngineInit /\ [][EngineNext]_vars

-----------------------------------------------------------------------------
(* The station API on its own *)

StationCalls == 1..MaxStationCalls

\* getStationById: findStationByUuid without the deleted rows, else NotFound
GetStationById(a) ==
    /\ api[a].pc = "idle"
    /\ \E u \in UUIDs :
          api' = [api EXCEPT ![a] =
             [@ EXCEPT !.pc = "done", !.op = "get", !.uuid = u,
                       !.result = IF ActiveStationExists(stations, u)
                                  THEN "ok" ELSE "NotFoundError"]]
    /\ UNCHANGED <<stations, telemetry, listener, handler, walk, http, paged, call>>

\* some devices have reported and have their auto-created station
StationInit ==
    /\ stations \in SUBSET ReportingStations
    /\ telemetry = {}
    /\ listener = "idle"
    /\ handler = [m \in Msgs |-> IdleHandler]
    /\ api = [a \in StationCalls |-> IdleCall]
    /\ walk = NoWalk
    /\ http = NoRequest
    /\ paged = NotPaged
    /\ call = NoCall

StationNext ==
    \/ \E a \in StationCalls : CreateStation(a)
    \/ \E a \in StationCalls : UpdateStationCheck(a)
    \/ \E a \in StationCalls : UpdateStationWrite(a)
    \/ \E a \in StationCalls : SoftDeleteCheck(a)
    \/ \E a \in StationCalls : SoftDeleteWrite(a)
    \/ \E a \in StationCalls : GetStationById(a)

StationSpec == StationInit /\ [][StationNext]_vars

-----------------------------------------------------------------------------
(* Errors and their HTTP responses *)

\* Values thrown at the handler are records with a kind: a string has its
\* text, as a sequence of parts, and, when the text is JSON, the value it
\* parses to; an object has its properties.
Str(parts) == [kind |-> "string", text |-> parts]

JsonOpen == "{\"_tag\":"

\* the constructors of errors.ts
databaseError(operation, cause) ==
    [kind |-> "object", tag |-> "DatabaseError", operation |-> operation, cause |-> cause,
     statusCode |-> 500, errorCode |-> "INTERNAL_ERROR"]

notFound(resource, id) ==
    [kind |-> "object", tag |-> "NotFoundError", resource |-> resource, id |-> id,
     statusCode |-> 404, errorCode |-> "NOT_FOUND"]

validationError(field, message) ==
    [kind |-> "object", tag |-> "ValidationError", field |-> field, message |-> Str(message),
     statusCode |-> 400, errorCode |-> "INVALID_ARGUMENT"]

cursorError(message) ==
    [kind |-> "object", tag |-> "CursorError", message |-> Str(message),
     statusCode |-> 400, errorCode |-> "INVALID_ARGUMENT"]

parsingError(operation, cause) ==
    [kind |-> "object", tag |-> "ParsingError", operation |-> operation, cause |-> cause,
     statusCode |-> 400, errorCode |-> "INVALID_ARGUMENT"]

unauthorizedError(message) ==
    [kind |-> "object", tag |-> "UnauthorizedError", message |-> Str(message),
     statusCode |-> 401, errorCode |-> "UNAUTHENTICATED"]

forbiddenError(resource, action) ==
    [kind |-> "object", tag |-> "ForbiddenError", resource |-> resource, action |-> action,
     statusCode |-> 403, errorCode |-> "PERMISSION_DENIED"]

spatialError(operation, cause) ==
    [kind |-> "object", tag |-> "SpatialError", operation |-> operation, cause |-> cause,
     statusCode |-> 500, errorCode |-> "INTERNAL_ERROR"]

configurationError(key, message) ==
    [kind |-> "object", tag |-> "ConfigurationError", key |-> key, message |-> Str(message),
     statusCode |-> 500, errorCode |-> "INTERNAL_ERROR"]

\* the texts JSON.stringify writes for an error
JsonTexts(e) ==
    IF e.tag \in {"DatabaseError", "ParsingError", "SpatialError"}
    THEN <<e.tag, e.operation>>
         \o (IF e.cause.kind = "string" THEN e.cause.text ELSE <<>>)
    ELSE <<e.tag>>

\* JSON.stringify(e): a string that parses back to e
JsonOf(e) == [kind |-> "string", text |-> <<JsonOpen>> \o JsonTexts(e), parsed |-> e]

\* x?.message of a value, <<>> when it has none
MessageOf(x) == IF x.kind = "object" /\ Has(x, "message") THEN x.message.text ELSE <<>>

\* text.startsWith('{') && text.includes('"_tag"')
LooksLikeTaggedJson(str) == Len(str.text) > 0 /\ str.text[1] = JsonOpen

\* JSON.parse(text) succeeds and parsed?._tag is set
ParsesToTagged(str) == Has(str, "parsed") /\ Has(str.parsed, "tag")

IsTagged(x) == x.kind = "object" /\ Has(x, "tag")

\* a thrown string that is the JSON of a tagged error stands for that error
FromString(error) ==
    IF error.kind = "string" /\ ParsesToTagged(error) THEN error.parsed ELSE error

\* an error whose message is the JSON of a tagged error stands for that error
FromMessage(error) ==
    IF /\ error.kind = "object"
       /\ Has(error, "message")
       /\ LooksLikeTaggedJson(error.message)
       /\ ParsesToTagged(error.message)
    THEN error.message.parsed ELSE error

\* error?.cause || error?._originalError || error
ActualError(error) ==
    IF error.kind = "object" /\ Has(error, "cause") THEN error.cause
    ELSE IF error.kind = "object" /\ Has(error, "originalError") THEN error.originalError
    ELSE error

InternalResponse(reason, message) ==
    [code |-> 500, message |-> <<"Internal server error">>, status |-> "INTERNAL_ERROR",
     details |-> [reason |-> reason, message |-> message]]

\* no tagged error was found: the message of what was thrown is reported
UnknownResponse(actual, error) ==
    InternalResponse("UNKNOWN_ERROR",
                     IF MessageOf(actual) # <<>> THEN MessageOf(actual)
                     ELSE IF MessageOf(error) # <<>> THEN MessageOf(error)
                     ELSE <<"An unexpected error occurred">>)

\* a slip: the response of a DatabaseError names the failed operation
DatabaseResponseNamesOperation(error) ==
    InternalResponse("INTERNAL_ERROR", <<"Database operation failed: ", error.operation>>)

\* case 'DatabaseError'
DatabaseResponse(error) ==
    InternalResponse("INTERNAL_ERROR", <<"An internal error occurred">>)

\* switch (error._tag)
TaggedResponse(error) ==
    CASE error.tag = "NotFoundError" ->
            [code |-> error.statusCode,
             message |-> <<error.resource, " with id '", error.id, "' not found">>,
             status |-> error.errorCode,
             details |-> [field |-> "id", reason |-> "RESOURCE_NOT_FOUND",
                          message |-> <<"The requested ", error.resource, " does not exist">>]]
      [] error.tag = "ValidationError" ->
            [code |-> error.statusCode,
             message |-> <<"Invalid argument: ", error.field>>,
             status |-> error.errorCode,
             details |-> [field |-> error.field, reason |-> "INVALID_ARGUMENT",
                          message |-> MessageOf(error)]]
      [] error.tag = "DatabaseError" -> DatabaseResponse(error)
      [] error.tag = "UnauthorizedError" ->
            [code |-> error.statusCode, message |-> <<"Authentication required">>,
             status |-> error.errorCode,
             details |-> [reason |-> "UNAUTHENTICATED", message |-> MessageOf(error)]]
      [] error.tag = "ForbiddenError" ->
            [code |-> error.statusCode, message |-> <<"Permission denied">>,
             status |-> error.errorCode,
             details |-> [reason |-> "PERMISSION_DENIED",
                          message |-> <<"Access denied for action '", error.action,
                                        "' on resource '", error.resource, "'">>]]
      [] error.tag = "SpatialError" ->
            [code |-> error.statusCode, message |-> <<"Spatial operation failed">>,
             status |-> error.errorCode,
             details |-> [reason |-> "SPATIAL_ERROR",
                          message |-> <<"Spatial operation '", error.operation, "' failed">>]]
      [] error.tag = "ConfigurationError" ->
            InternalResponse("INTERNAL_ERROR", <<"An internal error occurred">>)
      [] error.tag = "ParsingError" ->
            [code |-> error.statusCode,
             message |-> <<"Parsing failed: ", error.operation>>,
             status |-> error.errorCode,
             details |-> [reason |-> "PARSE_ERROR",
                          message |-> <<"Failed to parse data for operation '",
                                        error.operation, "'">>]]
      [] error.tag = "CursorError" ->
            [code |-> error.statusCode, message |-> MessageOf(error),
             status |-> error.errorCode,
             details |-> [reason |-> "INVALID_CURSOR", message |-> MessageOf(error)]]
      [] OTHER -> InternalResponse("UNKNOWN_ERROR", <<"An unexpected error occurred">>)

mapErrorToStandardResponse(thrown) ==
    LET error == FromMessage(FromString(thrown))
    IN IF IsTagged(error) THEN TaggedResponse(error)
       ELSE IF IsTagged(ActualError(error)) THEN TaggedResponse(ActualError(error))
       ELSE UnknownResponse(ActualError(error), error)

\* The failures an endpoint's effect can end with.
Operations == {"query_telemetry", "create_station", "update_station", "soft_delete_station"}

\* what the database driver threw, or a text
Causes ==
    {[kind |-> "object", message |-> Str(<<"duplicate key value violates unique constraint">>)],
     [kind |-> "object", message |-> Str(<<"invalid input syntax for type uuid">>)],
     Str(<<"connection refused">>)}

DatabaseErrors == {databaseError(op, cause) : op \in Operations, cause \in Causes}

OtherErrors ==
    {notFound("Station", "d1"),
     validationError("pagination", <<"Cannot specify both first and last">>),
     cursorError(<<"Invalid cursor format">>),
     parsingError("parse_senml", Str(<<"Unexpected token">>)),
     unauthorizedError(<<"Missing token">>),
     forbiddenError("Station", "delete"),
     spatialError("to_geojson", Str(<<"invalid geometry">>)),
     configurationError("DATABASE_URL", <<"not set">>),
     [kind |-> "object", tag |-> "TimeoutError"]}

\* defects: thrown values that are no tagged error
Defects ==
    {[kind |-> "object", message |-> Str(<<"Cannot read properties of undefined">>)],
     [kind |-> "object", message |-> Str(<<JsonOpen, "truncated">>)],
     Str(<<"boom">>)}

\* The shapes in which a failure e reaches the catch block: itself, its JSON,
\* an Error whose message is its JSON (the rejection of Effect.runPromise), an
\* Error with e as its cause, an Error with e as its _originalError.
Forms(e) ==
    {e,
     JsonOf(e),
     [kind |-> "object", message |-> JsonOf(e)],
     [kind |-> "object", cause |-> e, message |-> Str(<<"An error has occurred">>)],
     [kind |-> "object", originalError |-> e]}

\* the catch block of the endpoint handler: the error is mapped and the
\* response is sent with its code
HandlerCatch ==
    \E e \in DatabaseErrors \cup OtherErrors \cup Defects :
        \E thrown \in (IF IsTagged(e) THEN Forms(e) ELSE {e}) :
            /\ http' = [pc |-> "caught", error |-> e, thrown |-> thrown,
                        code |-> mapErrorToStandardResponse(thrown).code,
                        body |-> mapErrorToStandardResponse(thrown)]
            /\ UNCHANGED <<stations, telemetry, listener, handler, api, walk, paged, call>>

ErrorInit == Init

ErrorNext == HandlerCatch

ErrorSpec == ErrorInit /\ [][ErrorNext]_vars

-----------------------------------------------------------------------------
(* The SenML normalizer on its own *)

\* the value fields a measure can carry: one of v, vs, vb, none, or several
ValueFields ==
    {[v |-> 0], [v |-> 3], [vs |-> "3"], [vs |-> "abc"], [vb |-> TRUE], [vb |-> FALSE],
     <<>>, [v |-> 0, vs |-> "3"], [vs |-> "abc", vb |-> TRUE]}

\* the time fields a measure can carry: an offset in seconds, a base time in
\* epoch seconds, both or none
TimeFields ==
    {[t |-> 0], [t |-> 5], [t |-> 2], [t |-> 0 - 1], [bt |-> 1], [bt |-> 1, t |-> 5]}

SenmlMeasures ==
    {[n |-> "temp"] @@ f : f \in ValueFields}
    \cup {[n |-> "battery"] @@ f : f \in {[v |-> 0], [vs |-> "abc"], <<>>}}
    \cup {[n |-> "hum", v |-> 0]}
    \cup {[n |-> "pres", v |-> 3] @@ f : f \in TimeFields}

MeasureLists == UNION {[1..k -> SenmlMeasures] : k \in 0..MaxMeasures}

\* the wall clock of the normalizer model, later than the base time 1
IngestionTime == 2 * MsPerSecond

SenmlInit ==
    /\ stations = {}
    /\ telemetry = {}
    /\ listener = "idle"
    /\ handler = [m \in Msgs |-> IdleHandler]
    /\ api = [a \in Calls |-> IdleCall]
    /\ walk = NoWalk
    /\ http = NoRequest
    /\ paged = NotPaged
    /\ call \in {[pc |-> "input", measures |-> ms, ingestionTime |-> IngestionTime] :
                    ms \in MeasureLists}

\* senmlToDbNew is applied to the payload
Normalize ==
    /\ call.pc = "input"
    /\ call' = [pc |-> "normalized", measures |-> call.measures,
                ingestionTime |-> call.ingestionTime,
                point |-> senmlToDbNew(ValidPayload("d1", Undef, call.measures),
                                       call.ingestionTime)]
    /\ UNCHANGED <<stations, telemetry, listener, handler, api, walk, http, paged>>

SenmlNext == Normalize

SenmlSpec == SenmlInit /\ [][SenmlNext]_vars

-----------------------------------------------------------------------------
(* Decoding composite cursors, and the cursor codec on its own *)

IsDigit(b) == b - AsciiZero \in 0..9

\* the places of the commas of a text
Commas(text) == {i \in 1..Len(text) : text[i] = 44}

\* JSON.parse on the abridged texts: "{<deviceUuid>,<time>}" is an object with
\* the two fields, "{}" an object without fields, "n" is null, digits are a
\* number, and any other text is a SyntaxError
JsonParse(text) ==
    IF /\ Len(text) >= 3
       /\ text[1] = 123
       /\ text[Len(text)] = 125
       /\ Cardinality(Commas(text)) = 1
       /\ \A i \in 2..(Len(text) - 1) : text[i] \notin {123, 125}
    THEN LET k == CHOOSE i \in Commas(text) : TRUE
         IN [kind |-> "object",
             deviceUuid |-> SubSeq(text, 2, k - 1),
             time |-> SubSeq(text, k + 1, Len(text) - 1)]
    ELSE IF text = <<123, 125>> THEN [kind |-> "object"]
    ELSE IF text = <<110>> THEN [kind |-> "null"]
    ELSE IF Len(text) > 0 /\ \A i \in 1..Len(text) : IsDigit(text[i]) THEN [kind |-> "number"]
    ELSE [kind |-> "syntax"]

\* new Date(text): the instant of an ISO text, else Invalid Date
ParseDate(text) ==
    IF /\ Len(text) = 5
       /\ text[2] = 46
       /\ \A i \in {1, 3, 4, 5} : IsDigit(text[i])
    THEN (text[1] - AsciiZero) * MsPerSecond + (text[3] - AsciiZero) * 100
         + (text[4] - AsciiZero) * 10 + (text[5] - AsciiZero)
    ELSE InvalidDate

\* the device uuid a text stands for
DeviceOfText(text) ==
    CASE text = DeviceText("d1") -> "d1"
      [] text = DeviceText("d2") -> "d2"
      [] OTHER -> "other"

\* the try block of decodeCompositeCursor: what it throws, or what it returns
CompositeTry(cursor) ==
    IF ~Base64Format(cursor) THEN [thrown |-> "Error"]
    ELSE LET parsed == JsonParse(Base64Decode(cursor))
         IN IF parsed.kind = "syntax" THEN [thrown |-> "SyntaxError"]
            ELSE IF parsed.kind = "null" THEN [thrown |-> "TypeError"]
            ELSE IF \/ ~Has(parsed, "deviceUuid")
                    \/ ~Has(parsed, "time")
                    \/ Len(parsed.deviceUuid) = 0
                    \/ Len(parsed.time) = 0
            THEN [thrown |-> "Error"]
            ELSE [thrown |-> "none",
                  value |-> [deviceUuid |-> DeviceOfText(parsed.deviceUuid),
                             time |-> ParseDate(parsed.time)]]

\* a slip: only the Errors the block throws itself are turned into a CursorError
decodeCompositeCursorOwnErrors(cursor) ==
    LET r == CompositeTry(cursor)
    IN IF r.thrown = "none" THEN [ok |-> TRUE, error |-> "", value |-> r.value]
       ELSE IF r.thrown = "Error" THEN [ok |-> FALSE, error |-> "CursorError"]
       ELSE [ok |-> FALSE, error |-> r.thrown]

\* Effect.try: whatever the block throws becomes a CursorError
decodeCompositeCursor(cursor) ==
    LET r == CompositeTry(cursor)
    IN IF r.thrown = "none" THEN [ok |-> TRUE, error |-> "", value |-> r.value]
       ELSE [ok |-> FALSE, error |-> "CursorError"]

\* identifiers: ASCII texts of 1..MaxIdLen characters ("1", "2", "A", "-")
IdChars == {49, 50, 65, 45}

Ids == UNION {[1..k -> IdChars] : k \in 1..MaxIdLen}

\* instants, in milliseconds
CodecTimes == {0, 1000, 1500, 2001, 9999}

\* payloads of cursors this program did not issue
ForeignTexts ==
    {<<123>> \o u \o <<44>> \o t \o <<125>> :
        u \in {<<>>, <<49>>, <<120>>},
        t \in {<<>>, <<120>>, <<49>>, IsoText(1500), <<49, 46, 120, 48, 48>>}}
    \cup {<<>>, <<123, 125>>, <<110>>, <<49>>, <<123, 49>>, <<200>>, <<49, 200>>}

\* cursors of such payloads, their truncations, and texts that are no base64
ForeignCursors ==
    {Base64Encode(text) : text \in ForeignTexts}
    \cup {SubSeq(Base64Encode(text), 1, Len(Base64Encode(text)) - 1) :
             text \in {x \in ForeignTexts : Len(x) > 0}}
    \cup {<<Pad, 12>>, <<65>>, <<12, 65, 3, 4>>, <<12, Pad, Pad, Pad>>}

CodecInit ==
    /\ stations = {}
    /\ telemetry = {}
    /\ listener = "idle"
    /\ handler = [m \in Msgs |-> IdleHandler]
    /\ api = [a \in Calls |-> IdleCall]
    /\ walk = NoWalk
    /\ http = NoRequest
    /\ paged = NotPaged
    /\ call \in {[pc |-> "id", id |-> id] : id \in Ids}
           \cup {[pc |-> "pair", deviceUuid |-> u, time |-> t] :
                    u \in UUIDs, t \in CodecTimes}
           \cup {[pc |-> "cursor", codec |-> codec, cursor |-> c] :
                    codec \in {"simple", "composite"}, c \in ForeignCursors}

EncodeCursor ==
    /\ call.pc = "id"
    /\ call' = [pc |-> "cursor", codec |-> "simple", cursor |-> encodeCursor(call.id),
                id |-> call.id]
    /\ UNCHANGED <<stations, telemetry, listener, handler, api, walk, http, paged>>

EncodeCompositeCursor ==
    /\ call.pc = "pair"
    /\ call' = [pc |-> "cursor", codec |-> "composite",
                cursor |-> encodeCompositeCursor(call.deviceUuid, call.time),
                deviceUuid |-> call.deviceUuid, time |-> call.time]
    /\ UNCHANGED <<stations, telemetry, listener, handler, api, walk, http, paged>>

DecodeCursor ==
    /\ call.pc = "cursor"
    /\ call.codec = "simple"
    /\ call' = [pc |-> "decoded", result |-> decodeCursor(call.cursor)] @@ call
    /\ UNCHANGED <<stations, telemetry, listener, handler, api, walk, http, paged>>

DecodeCompositeCursor ==
    /\ call.pc = "cursor"
    /\ call.codec = "composite"
    /\ call' = [pc |-> "decoded", result |-> decodeCompositeCursor(call.cursor)] @@ call
    /\ UNCHANGED <<stations, telemetry, listener, handler, api, walk, http, paged>>

CodecNext ==
    \/ EncodeCursor
    \/ EncodeCompositeCursor
    \/ DecodeCursor
    \/ DecodeCompositeCursor

CodecSpec == CodecInit /\ [][CodecNext]_vars

-----------------------------------------------------------------------------
(* Properties of the ingestion and station system *)

Delivered(m) == handler[m].pc # "idle"
Terminal(m) == handler[m].pc \in {"done", "failed"}
UuidOf(m) == handler[m].payload.uuid
RowsFor(u) == {r \in stations : r.uuid = u}
ApiCreated(u) == \E a \in Calls : api[a].op = "create" /\ api[a].uuid = u

\* the upsert of message m returns successfully in this step
UpsertReturns(m) == handler[m].pc = "write" /\ handler'[m].pc = "insert"

\* the upsert call of message m has returned or failed
UpsertEnded(m) ==
    handler[m].pc \in {"insert", "done"} \/ handler[m].failedAt \in {"upsert", "insert"}

\* C2: two upsertStationForTelemetry calls for the same uuid that has no
\* station row (and that no API call creates) both succeed, whatever the
\* interleaving of their statements, and leave exactly one row for the uuid.
C2_ConcurrentUpsertsSucceed ==
    \A m, n \in Msgs :
        (/\ m # n
         /\ UuidOf(m) \in UUIDs /\ UuidOf(m) = UuidOf(n)
         /\ ~ApiCreated(UuidOf(m))
         /\ UpsertEnded(m) /\ UpsertEnded(n))
        => /\ handler[m].failedAt # "upsert"
           /\ handler[n].failedAt # "upsert"
           /\ Cardinality(RowsFor(UuidOf(m))) = 1

AtMostOneRowPerUuid ==
    \A r1, r2 \in stations : r1.uuid = r2.uuid => r1 = r2

\* no step removes a station row
StationRowsKept == \A r \in stations : \E r2 \in stations' : r2.uuid = r.uuid

\* the write of softDeleteStation changes deleted_at of its row and nothing else
SoftDeleteOnlyMarks ==
    \A a \in Calls :
        (api[a].pc = "write" /\ api[a].op = "delete" /\ api'[a].pc = "done")
        => stations' = {IF r.uuid = api[a].uuid THEN [r EXCEPT !.deletedAt = "ts"] ELSE r
                           : r \in stations}

\* an ingestion that finds a soft-deleted row clears deleted_at on that row
ReactivationKeepsRow ==
    \A m \in Msgs :
        (UpsertReturns(m) /\ RowState(stations, UuidOf(m)) = "deleted")
        => /\ Cardinality(stations') = Cardinality(stations)
           /\ RowState(stations', UuidOf(m)) = "active"
           /\ StationRow(stations', UuidOf(m)).autoCreated
                  = StationRow(stations, UuidOf(m)).autoCreated

\* C4: under every interleaving of createStation, updateStation,
\* softDeleteStation and ingestion there is at most one station row per uuid,
\* no row is ever removed, soft delete only sets deletedAt, and an ingestion
\* for a soft-deleted uuid clears deletedAt on the same row.
C4_OneRowPerUuidNeverRemoved ==
    [][/\ AtMostOneRowPerUuid'
       /\ StationRowsKept
       /\ SoftDeleteOnlyMarks
       /\ ReactivationKeepsRow]_vars

\* a soft-deleted row was found and re-activated by an ingestion
C4_Witness ==
    \E m \in Msgs :
        /\ handler[m].found = "deleted"
        /\ handler[m].pc \in {"insert", "done"}
        /\ Cardinality(RowsFor(UuidOf(m))) = 1

\* C5: upsertStationForTelemetry on a uuid whose row exists sets deletedAt to
\* null, sets model / firmwareVersion to the incoming value when it is
\* non-null and leaves it unchanged when it is null, and leaves status, name,
\* description and location unchanged.
C5_UpsertMergesNonNull ==
    [][\A m \in Msgs :
          (UpsertReturns(m) /\ RowState(stations, UuidOf(m)) # "none")
          => LET old == StationRow(stations, UuidOf(m))
                 new == StationRow(stations', UuidOf(m))
                 st == StationOf(handler[m].payload)
             IN /\ new.deletedAt = Null
                /\ new.model = (IF st.model # Null THEN st.model ELSE old.model)
                /\ new.fwVer = (IF st.fwVer # Null THEN st.fwVer ELSE old.fwVer)
                /\ new.status = old.status
                /\ new.name = old.name
                /\ new.description = old.description
                /\ new.location = old.location]_vars

\* C6: an ingestion for a uuid without a row inserts a row with status
\* "pending", autoCreated = true and deletedAt = null; and whenever
\* upsertStationForTelemetry succeeds, the returned station and the stored
\* row have deletedAt = null.
C6_UpsertReturnsActiveRow ==
    [][\A m \in Msgs :
          UpsertReturns(m)
          => /\ handler'[m].station.deletedAt = Null
             /\ handler'[m].station.uuid = UuidOf(m)
             /\ RowState(stations', UuidOf(m)) = "active"
             /\ RowState(stations, UuidOf(m)) = "none"
                  => /\ StationRow(stations', UuidOf(m)).status = "pending"
                     /\ StationRow(stations', UuidOf(m)).autoCreated = TRUE
                     /\ StationRow(stations', UuidOf(m)).deletedAt = Null]_vars

\* both cases happened: one upsert inserted a row, another re-activated a
\* soft-deleted row
C6_Witness ==
    \E m, n \in Msgs :
        /\ handler[m].found = "none" /\ handler[m].pc \in {"insert", "done"}
        /\ handler[n].found = "deleted" /\ handler[n].pc \in {"insert", "done"}

\* C7: a failure of one message at any stage is caught and logged, the
\* listener stays subscribed, and every delivered message is processed to
\* its end.
C7_OneBadMessageNeverStopsTheStream ==
    /\ [][listener = "subscribed" => listener' = "subscribed"]_vars
    /\ [](\A m \in Msgs : handler[m].failedAt # ""
              => handler[m].logged \in {"logError", "consoleError"})
    /\ \A m \in Msgs : Delivered(m) ~> Terminal(m)

\* a message failed, and a message delivered after that failure was ingested
C7_Witness ==
    /\ listener = "subscribed"
    /\ handler[1].pc = "failed"
    /\ handler[1].failedAt \in {"parse", "validate"}
    /\ handler[2].pc = "done"
    /\ handler[2].stmts > handler[1].stmts

\* C8: a delivered message causes at most one station upsert and at most one
\* telemetry insert, and once it has failed or ended it issues no further
\* storage statement and is never started again.
C8_AtMostOnce ==
    [][\A m \in Msgs :
          /\ handler'[m].upserts <= 1
          /\ handler'[m].inserts <= 1
          /\ (handler[m].failedAt # "" \/ handler[m].pc = "done")
                => handler'[m] = handler[m]]_vars

\* a message failed at the telemetry insert after its one upsert, and the
\* system went on
C8_Witness ==
    \E m, n \in Msgs :
        /\ handler[m].failedAt = "insert"
        /\ handler[m].upserts = 1 /\ handler[m].inserts = 1
        /\ m # n /\ handler[n].pc = "done"

Malformed(p) ==
    \/ ~p.json
    \/ p.isNull
    \/ ~p.device_info
    \/ p.uuid \in {Undef, Null}
    \/ p.measures_kind # "array"

\* C9: a message that is not JSON, or lacks device_info, the uuid or a list
\* of measures, is rejected before any storage operation.
C9_MalformedRejectedBeforeStorage ==
    \A m \in Msgs :
        (Delivered(m) /\ Malformed(handler[m].payload))
        => /\ handler[m].stmts = 0
           /\ handler[m].upserts = 0
           /\ handler[m].inserts = 0

\* C10: every stored telemetry row's deviceUuid is the uuid of an existing
\* station row.
C10_TelemetryRefersToStation ==
    \A t \in telemetry : \E r \in stations : r.uuid = t.deviceUuid

\* a telemetry row whose station has been soft-deleted since
C10_Witness ==
    \E t \in telemetry : RowState(stations, t.deviceUuid) = "deleted"

-----------------------------------------------------------------------------
(* Properties of the page walk *)

NoRepeat(seq) == \A i, j \in 1..Len(seq) : i # j => seq[i] # seq[j]

Visited == {walk.visited[i] : i \in 1..Len(walk.visited)}

TimeOfId(c) == (CHOOSE r \in telemetry : r.cursorId = c).time

NewestFirst(seq) ==
    \A i, j \in 1..Len(seq) : i < j => TimeOfId(seq[i]) >= TimeOfId(seq[j])

\* C1: a finished forward walk (first = n, then after = the previous endCursor)
\* over a telemetry table that did not change has visited every row matching
\* the filters exactly once, newest first, also when rows share a time and
\* differ in ingestedAt.
C1_ForwardWalkVisitsEachRowOnce ==
    (walk.pc = "done" /\ walk.static)
        => /\ NoRepeat(walk.visited)
           /\ Visited = walk.snapshot
           /\ NewestFirst(walk.visited)

\* C3: a finished forward walk during which points were inserted has returned
\* every row that existed (and matched) when the walk began exactly once, and
\* no row more than once.
C3_WalkUnderInsertsKeepsOldRows ==
    (walk.pc = "done" /\ ~walk.static)
        => /\ NoRepeat(walk.visited)
           /\ walk.snapshot \subseteq Visited

-----------------------------------------------------------------------------
(* Properties of GET /telemetry *)

Answered == http.pc \in {"replied", "failed"}

\* the request passed the validation and its cursors were decoded
Planned == Answered /\ http.field = "" /\ http.error # "CursorError"

\* the cursor text names a cursor_id that no stored row has
MissingAnchor(text) ==
    Len(text) > 0 /\ UuidSyntax(text) /\ CursorRows(telemetry, text) = {}

\* C11: a request whose after (or before) cursor decodes to a cursor_id that no
\* stored telemetry row has does not fail and returns a page with no edges.
C11_MissingAnchorGivesEmptyPage ==
    (Planned /\ ~LimitRejected(http.params)
       /\ (MissingAnchor(http.params.afterCursor) \/ MissingAnchor(http.params.beforeCursor)))
        => http.pc = "replied" /\ Len(http.rows) = 0

\* the rows of the page, as a set
PageRows == {http.rows[i] : i \in 1..Len(http.rows)}

\* a backward request (last and/or before, no first, no after) that was planned
BackwardRequest ==
    /\ Planned
    /\ http.params.isBackward
    /\ ~Has(http.req, "first")
    /\ ~Has(http.req, "after")

\* C12: when the before cursor of a backward request denotes the stored row R,
\* every returned row is on the newer side of R: the page holds neither R
\* itself nor a row older than R.
C12_BackwardPageIsNewerThanCursor ==
    (BackwardRequest /\ http.pc = "replied")
        => \A R \in CursorRows(telemetry, http.params.beforeCursor) :
              \A r \in PageRows : r.cursorId # R.cursorId /\ r.time >= R.time

\* the forward page that holds every row the filters of the request match
ForwardListing ==
    SelectTelemetry(telemetry,
                    [http.params EXCEPT !.isBackward = FALSE, !.afterCursor = <<>>,
                                        !.beforeCursor = <<>>,
                                        !.limit = Cardinality(telemetry)])

PlaceOf(row, listing) == CHOOSE i \in 1..Len(listing) : listing[i] = row

\* C13: the rows of a page are newest first, and two rows of a page stand in
\* the order in which a forward page returns them, whichever direction the
\* request has.
C13_PagesFollowOneOrder ==
    http.pc = "replied"
        => \A i, j \in 1..Len(http.rows) :
              i < j => /\ http.rows[i].time >= http.rows[j].time
                       /\ PlaceOf(http.rows[i], ForwardListing)
                              < PlaceOf(http.rows[j], ForwardListing)

-----------------------------------------------------------------------------
(* Properties of the pagination engines *)

Min(a, b) == IF a < b THEN a ELSE b

\* the text an edge's cursor decodes to, for the row it was made from
CursorTextOf(engine, row) ==
    IF engine = "createPaginatedResultWithCompositeCursor"
    THEN CompositeText(row.deviceUuid, row.time)
    ELSE row.id

\* C14: a page an engine builds has hasNextPage = TRUE exactly when its
\* number of rows equals the limit, and FALSE when it has fewer rows.
C14_HasNextPageIffPageIsFull ==
    paged.pc = "paged"
        => /\ paged.result.pageInfo.hasNextPage
                <=> (Len(paged.result.edges) = paged.params.limit)
           /\ Len(paged.rows) < paged.params.limit
                => ~paged.result.pageInfo.hasNextPage

C14_Witness ==
    /\ paged.pc = "paged"
    /\ Len(paged.rows) = paged.params.limit
    /\ paged.result.pageInfo.hasNextPage

\* the edges are the rows, one edge per row and in the order of the rows
EdgesKeepRows ==
    /\ Len(paged.result.edges) = Len(paged.rows)
    /\ \A i \in 1..Len(paged.rows) :
          /\ paged.result.edges[i].node = NodeOf(paged.rows[i])
          /\ Base64Decode(paged.result.edges[i].cursor)
                = CursorTextOf(paged.engine, paged.rows[i])

\* startCursor and endCursor are the cursors of the first and the last edge,
\* and are absent when there is no edge
CursorsAreEnds ==
    LET edges == paged.result.edges
        info == paged.result.pageInfo
    IN IF Len(edges) = 0
       THEN info.startCursor = <<>> /\ info.endCursor = <<>>
       ELSE info.startCursor = <<edges[1].cursor>>
            /\ info.endCursor = <<edges[Len(edges)].cursor>>

\* C15 as stated: for any window and any limit the result has
\* min(number of rows, limit) edges, in the order of the rows, and startCursor
\* and endCursor are the cursors of the first and the last edge.
C15_EdgesAreMinOfRowsAndLimit ==
    paged.pc = "paged"
        => /\ Len(paged.result.edges) = Min(Len(paged.rows), paged.params.limit)
           /\ CursorsAreEnds

\* C15 as amended: for any window and any limit the result has one edge per
\* row of the window, in the order of the rows (which is min(rows, limit) edges
\* when the window is no longer than the limit), and startCursor and endCursor
\* are the cursors of the first and the last edge, absent when there is none.
C15_EdgesAreTheWindow ==
    paged.pc = "paged"
        => /\ EdgesKeepRows
           /\ Len(paged.rows) <= paged.params.limit
                => Len(paged.result.edges) = Min(Len(paged.rows), paged.params.limit)
           /\ CursorsAreEnds

C15_Witness ==
    /\ paged.pc = "paged"
    /\ Len(paged.rows) = MaxLimit
    /\ paged.params.limit = MaxLimit
    /\ paged.result.pageInfo.startCursor # paged.result.pageInfo.endCursor

-----------------------------------------------------------------------------
(* Properties of the request validation *)

\* the limit the request asks for: first, else last, else the default
RequestedLimit ==
    IF Has(http.req, "first") THEN http.req.first
    ELSE IF Has(http.req, "last") THEN http.req.last ELSE DefaultLimit

LimitInRange == RequestedLimit \in 1..MaxPageLimit

BadTimeRange ==
    \/ Has(http.req, "startTime") /\ http.req.startTime = InvalidDate
    \/ Has(http.req, "endTime") /\ http.req.endTime = InvalidDate
    \/ FieldOr(http.req, "startTime", BeginningOfTime)
          >= FieldOr(http.req, "endTime", FarFuture)

BothLimits == Has(http.req, "first") /\ Has(http.req, "last")

BothCursors == Has(http.req, "after") /\ Has(http.req, "before")

UndecodableCursor ==
    \/ Has(http.req, "after") /\ ~decodeCursor(http.req.after).ok
    \/ Has(http.req, "before") /\ ~decodeCursor(http.req.before).ok

InvalidRequest == BadTimeRange \/ BothLimits \/ BothCursors \/ ~LimitInRange

\* C16: a request with an unparseable start or end time, with
\* startTime >= endTime, with both first and last, with both after and before,
\* with a limit outside the allowed range or with an undecodable cursor fails
\* with a ValidationError (a CursorError for the cursor) and runs no storage
\* query.
C16_InvalidRequestFailsBeforeStorage ==
    (Answered /\ (InvalidRequest \/ UndecodableCursor))
        => /\ http.pc = "failed"
           /\ ~http.queried
           /\ http.error \in {"ValidationError", "CursorError"}
           /\ http.error = "CursorError" => UndecodableCursor
           /\ http.error = "ValidationError" => InvalidRequest

\* the request asks for a number of rows below or above the allowed range
LimitBelow == ~IsNaN(RequestedLimit) /\ RequestedLimit < 1
LimitAbove == ~IsNaN(RequestedLimit) /\ RequestedLimit > MaxPageLimit

\* the request has no other fault than its limit
OnlyLimitWrong == ~BadTimeRange /\ ~BothLimits /\ ~BothCursors /\ ~UndecodableCursor

\* C17: the limit is clamped to [1, 1000]: a requested value below 1 is
\* planned as 1, a value above 1000 as 1000, and the storage layer never
\* receives a limit outside [1, 1000].
C17_LimitIsClamped ==
    Answered
        => /\ http.queried => http.params.limit \in 1..MaxPageLimit
           /\ (OnlyLimitWrong /\ LimitBelow) => (http.queried /\ http.params.limit = 1)
           /\ (OnlyLimitWrong /\ LimitAbove)
                => (http.queried /\ http.params.limit = MaxPageLimit)

\* the request mixes the directions: after with last, or before with first
MixedDirections ==
    \/ Has(http.req, "after") /\ Has(http.req, "last")
    \/ Has(http.req, "before") /\ Has(http.req, "first")

\* C18: a request that mixes after with last, or before with first, is
\* rejected with a ValidationError, and the storage query is never run with an
\* after cursor while it is backward nor with a before cursor while it is
\* forward.
C18_MixedDirectionsRejected ==
    Answered
        => /\ MixedDirections
                => (http.pc = "failed" /\ http.error = "ValidationError" /\ ~http.queried)
           /\ http.queried
                => /\ ~(http.params.isBackward /\ Len(http.params.afterCursor) > 0)
                   /\ ~(~http.params.isBackward /\ Len(http.params.beforeCursor) > 0)

-----------------------------------------------------------------------------
(* Properties of the station API *)

\* call a starts operation op at this step, for a uuid in row state st
CallStarts(a, op, st) ==
    /\ api[a].pc = "idle"
    /\ api'[a].pc # "idle"
    /\ api'[a].op = op
    /\ RowState(stations, api'[a].uuid) = st

\* C19: softDeleteStation, updateStation and getStationById called for a uuid
\* that has no station row, or whose row is soft-deleted, fail with
\* NotFoundError, and the call leaves every station row unchanged.
C19_MissingStationIsNotFound ==
    [][\A a \in StationCalls, op \in {"update", "delete", "get"}, st \in {"none", "deleted"} :
          CallStarts(a, op, st)
              => /\ api'[a].pc = "done"
                 /\ api'[a].result = "NotFoundError"
                 /\ stations' = stations]_vars

C19_Witness ==
    \E a, b \in StationCalls :
        /\ api[a].op = "update" /\ api[a].result = "NotFoundError"
        /\ RowState(stations, api[a].uuid) = "deleted"
        /\ api[b].op = "delete" /\ api[b].result = "ok" /\ api[b].uuid = api[a].uuid

-----------------------------------------------------------------------------
(* Properties of the error responses *)

\* the texts a response shows to the client
ResponseTexts(r) ==
    {r.status, r.details.reason}
    \cup {r.message[i] : i \in DOMAIN r.message}
    \cup {r.details.message[i] : i \in DOMAIN r.details.message}

\* the texts of a DatabaseError that must stay inside: its operation and
\* what its cause says
InternalTexts(e) ==
    {e.operation}
    \cup {MessageOf(e.cause)[i] : i \in DOMAIN MessageOf(e.cause)}
    \cup (IF e.cause.kind = "string" THEN {e.cause.text[i] : i \in DOMAIN e.cause.text} ELSE {})

\* C20: every DatabaseError, whatever its operation and cause and in whatever
\* shape it reaches the handler, is answered with the same response: code 500,
\* status INTERNAL_ERROR, and no text of the operation or of the cause.
C20_DatabaseErrorsGetOneGenericResponse ==
    (http.pc = "caught" /\ http.error \in DatabaseErrors) =>
        /\ http.code = 500
        /\ http.body.code = 500
        /\ http.body.status = "INTERNAL_ERROR"
        /\ ResponseTexts(http.body) \cap InternalTexts(http.error) = {}
        /\ \A e \in DatabaseErrors : \A thrown \in Forms(e) :
               mapErrorToStandardResponse(thrown) = http.body

\* a DatabaseError of an update with a driver error as its cause was answered,
\* after it reached the handler as the rejection of the effect
C20_Witness ==
    /\ http.pc = "caught"
    /\ http.error \in DatabaseErrors
    /\ http.error.operation = "update_station"
    /\ http.error.cause.kind = "object"
    /\ http.thrown = [kind |-> "object", message |-> JsonOf(http.error)]
    /\ http.body.code = 500

-----------------------------------------------------------------------------
(* Properties of the SenML normalizer *)

Normalized == call.pc = "normalized"

\* the positions of the measures that name metric c
Naming(c) == {i \in 1..Len(call.measures) : call.measures[i].n = c}

ExplicitZero(m) == Has(m, "v") /\ m.v = 0

Last(I) == CHOOSE i \in I : \A j \in I : j <= i

\* C21 as stated: a fixed metric for which the list holds a measure with the
\* explicit value 0 has column 0, and a fixed metric that no measure names has
\* a null column.
C21_ZeroIsKeptAbsentIsNull ==
    Normalized =>
        \A c \in FixedColumns :
            /\ (\E i \in Naming(c) : ExplicitZero(call.measures[i])) =>
                   call.point.cols[c] = Num(0)
            /\ Naming(c) = {} => call.point.cols[c] = NoNumber

\* C21 amended: a fixed metric whose last measure in the list has the explicit
\* value 0 has column 0, not null (a later measure of the same metric
\* overwrites an earlier one), and a fixed metric that no measure names has a
\* null column.
C21_LastZeroIsKeptAbsentIsNull ==
    Normalized =>
        \A c \in FixedColumns :
            /\ (Naming(c) # {} /\ ExplicitZero(call.measures[Last(Naming(c))])) =>
                   call.point.cols[c] = Num(0)
            /\ Naming(c) = {} => call.point.cols[c] = NoNumber

\* a payload with an explicit 0 for temp after another temp reading, and no
\* pressure reading, was normalized
C21_Witness ==
    /\ Normalized
    /\ Cardinality(Naming("temp")) = 2
    /\ ExplicitZero(call.measures[Last(Naming("temp"))])
    /\ call.point.cols["temp"] = Num(0)
    /\ Naming("pres") = {}
    /\ call.point.cols["pres"] = NoNumber

\* the base time as the normalizer resolves it: the base time the first
\* measure declares, else the ingestion time
ResolvedBase ==
    IF Has(call.measures[1], "bt") THEN call.measures[1].bt * MsPerSecond
    ELSE call.ingestionTime

\* base + offset when the measure has an offset, else base
AbsoluteTime(m) == IF Has(m, "t") THEN ResolvedBase + m.t * MsPerSecond ELSE ResolvedBase

LatestTime ==
    CHOOSE x \in {AbsoluteTime(call.measures[i]) : i \in 1..Len(call.measures)} :
        \A i \in 1..Len(call.measures) : AbsoluteTime(call.measures[i]) <= x

Orders(n) == {f \in [1..n -> 1..n] : \A i, j \in 1..n : f[i] = f[j] => i = j}

Permuted(ms, f) == [i \in 1..Len(ms) |-> ms[f[i]]]

TimeOf(ms) == senmlToDbNew(ValidPayload("d1", Undef, ms), call.ingestionTime).time

\* C22: the time of the draft of a non-empty list is the maximum of the
\* absolute times of its measures (base + offset, else base), and every
\* permutation of the list gives the same time.
C22_TimeIsLatestInAnyOrder ==
    (Normalized /\ Len(call.measures) > 0) =>
        /\ call.point.time = LatestTime
        /\ \A f \in Orders(Len(call.measures)) :
               TimeOf(Permuted(call.measures, f)) = call.point.time

\* the value the priority rule gives for one measure
Coerced(m) ==
    CASE Has(m, "v") -> Num(m.v)
      [] ~Has(m, "v") /\ Has(m, "vs") -> ParseFloat(m.vs)
      [] ~Has(m, "v") /\ ~Has(m, "vs") /\ Has(m, "vb") /\ m.vb -> Num(1)
      [] ~Has(m, "v") /\ ~Has(m, "vs") /\ Has(m, "vb") /\ ~m.vb -> Num(0)
      [] OTHER -> NoNumber

\* C23: the value written for a measure follows the priority numeric value
\* (0 included), then string value parsed as a number (null when it does not
\* parse, without a failure), then boolean value as 1 or 0, else null. It is
\* observed in the column of every named fixed metric, and in the extras map
\* for the other names, which hold non-null values only.
C23_ValueFollowsPriority ==
    Normalized =>
        /\ \A c \in FixedColumns :
               Naming(c) # {} =>
                   call.point.cols[c] = Coerced(call.measures[Last(Naming(c))])
        /\ \A i \in 1..Len(call.measures) :
               (call.measures[i].n \notin FixedColumns /\ Coerced(call.measures[i]) # NoNumber)
                   => call.measures[i].n \in DOMAIN call.point.extras

\* a measure with an unparseable string value and a boolean value was
\* normalized to null, in a list that also holds an explicit 0 and a boolean
C23_Witness ==
    /\ Normalized
    /\ Len(call.measures) = 3
    /\ call.measures[3] = [n |-> "temp", vs |-> "abc", vb |-> TRUE]
    /\ call.point.cols["temp"] = NoNumber
    /\ call.measures[1] = [n |-> "hum", v |-> 0]
    /\ call.point.cols["hum"] = Num(0)

-----------------------------------------------------------------------------
(* Properties of the cursor codec *)

Decoded == call.pc = "decoded"

\* C24: decoding an encoded cursor gives back what was encoded: the identifier
\* for a simple cursor, the device uuid and the instant for a composite one.
C24_DecodeInvertsEncode ==
    Decoded =>
        /\ Has(call, "id") =>
               (call.result.ok /\ call.result.value = call.id)
        /\ Has(call, "deviceUuid") =>
               /\ call.result.ok
               /\ call.result.value.deviceUuid = call.deviceUuid
               /\ call.result.value.time = call.time

\* the pair (d2, 1.5 s) was encoded and decoded
C24_Witness ==
    /\ Decoded
    /\ Has(call, "deviceUuid")
    /\ call.deviceUuid = "d2"
    /\ call.time = 1500
    /\ call.cursor = encodeCompositeCursor("d2", 1500)
    /\ call.result.ok

\* C25: decoding never throws. For every cursor text (absent, not base64, a
\* payload of another structure) each decoder ends either with a value or with
\* a CursorError, and a failure carries no value.
C25_DecodingIsTotal ==
    Decoded =>
        IF call.result.ok
        THEN call.result.error = "" /\ Has(call.result, "value")
        ELSE /\ call.result.error = "CursorError"
             /\ Has(call.result, "value") => call.result.value = <<>>

\* the cursor of the JSON text null, on which the structure check itself
\* throws, was decoded as a composite cursor
C25_Witness ==
    /\ Decoded
    /\ call.codec = "composite"
    /\ call.cursor = Base64Encode(<<110>>)
    /\ CompositeTry(call.cursor).thrown = "TypeError"
    /\ ~call.result.ok

\* C26: a composite cursor whose payload is well-formed JSON with a time that
\* is no valid timestamp is refused with a CursorError, and every decoded
\* composite cursor carries a valid time.
C26_InvalidTimeIsRefused ==
    (Decoded /\ call.codec = "composite") =>
        /\ (/\ Base64Format(call.cursor)
            /\ JsonParse(Base64Decode(call.cursor)).kind = "object"
            /\ Has(JsonParse(Base64Decode(call.cursor)), "time")
            /\ ParseDate(JsonParse(Base64Decode(call.cursor)).time) = InvalidDate)
           => (~call.result.ok /\ call.result.error = "CursorError")
        /\ call.result.ok => call.result.value.time # InvalidDate

-----------------------------------------------------------------------------
(* Properties of the walk over a static table *)

\* C27: a forward walk over a table that does not change ends: after finitely
\* many requests a page without a next page, or without edges, is reached.
C27_StaticWalkTerminates == <>(walk.pc \in {"done", "beyond"})

\* a walk of page size 1 over three rows ended after more than three pages
C27_Witness ==
    /\ walk.pc = "done"
    /\ Len(walk.after) = 0
    /\ Cardinality(telemetry) = 3
    /\ walk.req.first = 1
    /\ walk.pages > 3

-----------------------------------------------------------------------------
(* Properties of the two writes of one message *)

\* C29: when the telemetry insert of a message fails after its station
\* reconcile, the stations keep the reconciled row (nothing is rolled back) and
\* no telemetry row is written for the message.
C29_FailedInsertKeepsStation ==
    [][\A m \in Msgs :
          (handler[m].pc = "insert" /\ handler'[m].failedAt = "insert") =>
              /\ stations' = stations
              /\ telemetry' = telemetry
              /\ \E r \in stations' : r.uuid = handler[m].payload.uuid]_vars

\* the insert of a message failed after its reconcile had created the station
\* row, and the row is in storage
C29_Witness ==
    \E m \in Msgs :
        /\ handler[m].failedAt = "insert"
        /\ handler[m].found = "none"
        /\ \E r \in stations : r.uuid = handler[m].payload.uuid /\ r.autoCreated

-----------------------------------------------------------------------------
(* Properties of updateStation racing softDeleteStation *)

\* C30: the write of updateStation never changes a soft-deleted row, and an
\* updateStation whose write finds its row soft-deleted (the delete landed
\* after its existence check) fails with NotFoundError, not a storage error.
C30_UpdateOfDeletedRowIsNotFound ==
    [][\A a \in DOMAIN api :
          (api[a].pc = "write" /\ api[a].op = "update" /\ api'[a].pc = "done") =>
              /\ \A r \in stations : r.deletedAt # Null => r \in stations'
              /\ (\E r \in stations : r.uuid = api[a].uuid /\ r.deletedAt # Null) =>
                     api'[a].result = "NotFoundError"]_vars

\* the first half of C30 alone: the write of updateStation never changes a
\* soft-deleted row
UpdateWriteSparesDeletedRows ==
    [][\A a \in DOMAIN api :
          (api[a].pc = "write" /\ api[a].op = "update" /\ api'[a].pc = "done") =>
              \A r \in stations : r.deletedAt # Null => r \in stations']_vars

====
